---- MODULE Spec2Model ----
(***************************************************************************)
(* Model of git-commit-heatmap (src/main.py).                              *)
(*                                                                         *)
(* Six state machines share this module:                                   *)
(*   Spec        generate_heatmap followed by one of the three renderers   *)
(*   SpecScale   the intensity thresholds of the two colouring renderers   *)
(*   SpecTooltip the tooltip script embedded in the generated HTML page    *)
(*   SpecHeader  the two header rows of the HTML table                     *)
(*   SpecRaf     the scheduling of the year-label script                   *)
(*   SpecLabel   the placement of one year label by that script            *)
(*                                                                         *)
(* A Python dict is a sequence of <<key, value>> pairs in insertion order, *)
(* because max() and the stable sorted() of the renderers observe that     *)
(* order.  A date is <<year, month, day>>; a commit record is              *)
(* <<date, hour, repo_name>>; a cell key is <<date, hour>>.                *)
(***************************************************************************)
EXTENDS Integers, Sequences, FiniteSets, TLC

VARIABLES commits, pos, heatmap, repo_heatmap, repo_stats, pc, stdout, file,
          count, max_count, color, level, block,
          active, activeCell, hovered, event,
          hdr_dates, year_row, date_row,
          rafId, ticking, callbacks, nextId, layout, labels,
          headerLeft, headerWidth, viewportWidth, textWidth, visible, offsetX2, recomputed

vars == <<commits, pos, heatmap, repo_heatmap, repo_stats, pc, stdout, file,
          count, max_count, color, level, block,
          active, activeCell, hovered, event,
          hdr_dates, year_row, date_row,
          rafId, ticking, callbacks, nextId, layout, labels,
          headerLeft, headerWidth, viewportWidth, textWidth, visible, offsetX2,
          recomputed>>

aggVars == <<commits, pos, heatmap, repo_heatmap, repo_stats, pc, stdout, file>>
scaleVars == <<count, max_count, color, level, block>>
tipVars == <<active, activeCell, hovered, event>>
hdrVars == <<hdr_dates, year_row, date_row>>
rafVars == <<rafId, ticking, callbacks, nextId, layout, labels>>
lblVars == <<headerLeft, headerWidth, viewportWidth, textWidth, visible, offsetX2,
          recomputed>>
pageVars == <<hdrVars, rafVars, lblVars>>

(***************************************************************************)
(* Bounds of the model.                                                    *)
(***************************************************************************)
MaxLen == 3
MaxCount == 12
NumCells == 5
NumHeaderDates == 6
MaxLayoutChanges == 3
MaxWidth == 4

(***************************************************************************)
(* Input domains.  RepoNames lists the source names in lexicographic       *)
(* order, which is the order Python compares them in.                      *)
(***************************************************************************)
Dates == {<<2023, 12, 31>>, <<2024, 1, 1>>}
RepoNames == <<"repoA", "repoB">>
Repos == {RepoNames[i] : i \in DOMAIN RepoNames}
InputHours == {9, 14}
Records == Dates \X InputHours \X Repos

RECURSIVE SeqsUpTo(_, _)
SeqsUpTo(S, n) ==
    IF n = 0 THEN {<<>>}
    ELSE LET shorter == SeqsUpTo(S, n - 1)
         IN  shorter \cup {Append(s, x) : s \in {t \in shorter : Len(t) = n - 1}, x \in S}
Batches == SeqsUpTo(Records, MaxLen)

(***************************************************************************)
(* dict helpers: insertion-ordered maps.                                   *)
(***************************************************************************)
Keys(d) == {d[i][1] : i \in DOMAIN d}
Has(d, k) == \E i \in DOMAIN d : d[i][1] = k
IndexOf(d, k) == CHOOSE i \in DOMAIN d : d[i][1] = k
Get(d, k, default) == IF Has(d, k) THEN d[IndexOf(d, k)][2] ELSE default
Values(d) == [i \in DOMAIN d |-> d[i][2]]
Items(d) == {d[i] : i \in DOMAIN d}

(* What a lookup leaves in the dict.  d.get(k, default) and k in d never    *)
(* call __missing__; d[k] on a defaultdict inserts the default for a        *)
(* missing key.                                                             *)
AfterGet_Missing(d, k) == IF Has(d, k) THEN d ELSE Append(d, <<k, 0>>)

AfterGet(d, k) == d
AfterContains(d, k) == d
AfterIndex(d, k, default) == IF Has(d, k) THEN d ELSE Append(d, <<k, default>>)

RECURSIVE SumSeq(_)
SumSeq(s) == IF s = <<>> THEN 0 ELSE Head(s) + SumSeq(Tail(s))

(* Incr with "= 1" written for "+= 1" *)
Incr_Assign(d, k) ==
    IF Has(d, k)
    THEN [d EXCEPT ![IndexOf(d, k)] = <<k, 1>>]
    ELSE Append(d, <<k, 1>>)

(* defaultdict(int): d[k] += 1 creates the key with 0 on first access *)
Incr(d, k) ==
    IF Has(d, k)
    THEN [d EXCEPT ![IndexOf(d, k)] = <<k, @[2] + 1>>]
    ELSE Append(d, <<k, 1>>)

(* IncrNested with the inner map replaced by a fresh one on every record *)
IncrNested_Fresh(d, k, r) ==
    IF Has(d, k)
    THEN [d EXCEPT ![IndexOf(d, k)] = <<k, Incr(<<>>, r)>>]
    ELSE Append(d, <<k, Incr(<<>>, r)>>)

(* defaultdict(lambda: defaultdict(int)): d[k][r] += 1 *)
IncrNested(d, k, r) ==
    IF Has(d, k)
    THEN [d EXCEPT ![IndexOf(d, k)] = <<k, Incr(@[2], r)>>]
    ELSE Append(d, <<k, Incr(<<>>, r)>>)

(***************************************************************************)
(* generate_heatmap: the body of the for loop, then the whole function.    *)
(***************************************************************************)
(* Accumulate with the per-source count of a cell set to the cell's running total *)
Accumulate_CellTotal(agg, rec) ==
    LET key == <<rec[1], rec[2]>>
        h == Incr(agg.heatmap, key)
        inner == Get(agg.repo_heatmap, key, <<>>)
        set == IF Has(inner, rec[3])
               THEN [inner EXCEPT ![IndexOf(inner, rec[3])] = <<rec[3], Get(h, key, 0)>>]
               ELSE Append(inner, <<rec[3], Get(h, key, 0)>>)
    IN  [heatmap      |-> h,
         repo_heatmap |-> IF Has(agg.repo_heatmap, key)
                          THEN [agg.repo_heatmap EXCEPT
                                  ![IndexOf(agg.repo_heatmap, key)] = <<key, set>>]
                          ELSE Append(agg.repo_heatmap, <<key, set>>),
         repo_stats   |-> Incr(agg.repo_stats, rec[3])]

Accumulate(agg, rec) ==
    LET key == <<rec[1], rec[2]>>
    IN  [heatmap      |-> Incr(agg.heatmap, key),
         repo_heatmap |-> IncrNested(agg.repo_heatmap, key, rec[3]),
         repo_stats   |-> Incr(agg.repo_stats, rec[3])]

EmptyAggregate == [heatmap |-> <<>>, repo_heatmap |-> <<>>, repo_stats |-> <<>>]

RECURSIVE FoldCommits(_, _)
FoldCommits(agg, cs) ==
    IF cs = <<>> THEN agg ELSE FoldCommits(Accumulate(agg, Head(cs)), Tail(cs))

generate_heatmap(cs) == FoldCommits(EmptyAggregate, cs)

Aggregate == [heatmap |-> heatmap, repo_heatmap |-> repo_heatmap, repo_stats |-> repo_stats]

(***************************************************************************)
(* Python built-ins the renderers use.                                     *)
(***************************************************************************)
DateLeq(a, b) ==
    \/ a[1] < b[1]
    \/ a[1] = b[1] /\ a[2] < b[2]
    \/ a[1] = b[1] /\ a[2] = b[2] /\ a[3] <= b[3]

(* sorted(set(...)) over dates *)
RECURSIVE SortDates(_)
SortDates(S) ==
    IF S = {} THEN <<>>
    ELSE LET m == CHOOSE x \in S : \A y \in S : DateLeq(x, y)
         IN  <<m>> \o SortDates(S \ {m})

RemoveAt(s, i) == [j \in 1..(Len(s) - 1) |-> IF j < i THEN s[j] ELSE s[j + 1]]

(* max(d.values()) *)
MaxValue(d) == CHOOSE v \in {d[i][2] : i \in DOMAIN d} : \A i \in DOMAIN d : d[i][2] <= v

(* max(d.items(), key=lambda x: x[1]): the first maximal item in iteration order *)
FirstMaxIndex(d) ==
    CHOOSE i \in DOMAIN d :
        /\ \A j \in DOMAIN d : d[j][2] <= d[i][2]
        /\ \A j \in 1..(i - 1) : d[j][2] < d[i][2]
(* the first item in iteration order, whatever its count *)
MaxItem_First(d) == d[1]

MaxItem(d) == d[FirstMaxIndex(d)]

(* sorted(d.items(), key=lambda x: x[1], reverse=True): stable, so items of *)
(* equal count keep their iteration order                                  *)
RECURSIVE SortedByCountDesc(_)
SortedByCountDesc(d) ==
    IF d = <<>> THEN <<>>
    ELSE LET i == FirstMaxIndex(d)
         IN  <<d[i]>> \o SortedByCountDesc(RemoveAt(d, i))

(* sorted(d.items()): by key, the keys of a dict being distinct *)
NameRank(r) == CHOOSE i \in DOMAIN RepoNames : RepoNames[i] = r
FirstNameIndex(d) ==
    CHOOSE i \in DOMAIN d : \A j \in DOMAIN d : NameRank(d[i][1]) <= NameRank(d[j][1])
RECURSIVE SortedByName(_)
SortedByName(d) ==
    IF d = <<>> THEN <<>>
    ELSE LET i == FirstNameIndex(d)
         IN  <<d[i]>> \o SortedByName(RemoveAt(d, i))

(***************************************************************************)
(* String formatting.                                                      *)
(***************************************************************************)
DigitChar(n) == <<"0", "1", "2", "3", "4", "5", "6", "7", "8", "9">>[n + 1]

(* str(n) for n >= 0 *)
RECURSIVE IntStr(_)
IntStr(n) == IF n < 10 THEN DigitChar(n) ELSE IntStr(n \div 10) \o DigitChar(n % 10)

RECURSIVE Spaces(_)
Spaces(n) == IF n <= 0 THEN "" ELSE " " \o Spaces(n - 1)

(* f"{s:>w}" *)
RightAlign(s, w) == Spaces(w - Len(s)) \o s

(* zero-padded field of strftime *)
RECURSIVE ZeroPad(_, _)
ZeroPad(s, w) == IF Len(s) >= w THEN s ELSE ZeroPad("0" \o s, w)

(* date.strftime("%m-%d") and date.strftime("%Y-%m-%d") *)
StrfMonthDay(date) == ZeroPad(IntStr(date[2]), 2) \o "-" \o ZeroPad(IntStr(date[3]), 2)
StrfDate(date) == ZeroPad(IntStr(date[1]), 4) \o "-" \o StrfMonthDay(date)

(* f"{percentage:.1f}" with percentage = count / total_commits * 100, or 0 *)
(* when total_commits is 0: tenths of a percent, ties to even               *)
PercentStr(cnt, total) ==
    LET num == cnt * 1000
        q == IF total > 0 THEN num \div total ELSE 0
        r == IF total > 0 THEN num % total ELSE 0
        tenths == IF 2 * r > total \/ (2 * r = total /\ q % 2 = 1) THEN q + 1 ELSE q
    IN  IntStr(tenths \div 10) \o "." \o DigitChar(tenths % 10)

(***************************************************************************)
(* Intensity thresholds.  max_count * 0.25, * 0.5 and * 0.75 are exact in  *)
(* binary floating point for the counts of a commit history, so            *)
(* count <= max_count * 0.25 is 4 * count <= max_count, and so on.         *)
(* get_color returns the 256-colour code N of "\033[38;5;Nm".              *)
(***************************************************************************)
(* get_color with "<" written for "<=" *)
get_color_Strict(cnt, mx) ==
    IF cnt = 0 THEN 232
    ELSE IF 4 * cnt < mx THEN 22
    ELSE IF 2 * cnt < mx THEN 28
    ELSE IF 4 * cnt < 3 * mx THEN 34
    ELSE 40

get_color(cnt, mx) ==
    IF cnt = 0 THEN 232
    ELSE IF 4 * cnt <= mx THEN 22
    ELSE IF 2 * cnt <= mx THEN 28
    ELSE IF 4 * cnt <= 3 * mx THEN 34
    ELSE 40

(* html_level without the count == 0 case *)
html_level_NoZero(cnt, mx) ==
    IF 4 * cnt <= mx THEN 1
    ELSE IF 2 * cnt <= mx THEN 2
    ELSE IF 4 * cnt <= 3 * mx THEN 3
    ELSE 4

(* the level of class="cell level-N" *)
html_level(cnt, mx) ==
    IF cnt = 0 THEN 0
    ELSE IF 4 * cnt <= mx THEN 1
    ELSE IF 2 * cnt <= mx THEN 2
    ELSE IF 4 * cnt <= 3 * mx THEN 3
    ELSE 4

(***************************************************************************)
(* What a renderer prints: one tuple per print call, <<tag, fields...>>,   *)
(* the fields formatted as the code formats them.                          *)
(***************************************************************************)
Hours == 0..23
HourSeq == [i \in 1..24 |-> i - 1]

NoDataNotice == <<"no-data">>

DatesOf(h) == SortDates({k[1] : k \in Keys(h)})

(* the block without the saturation branch *)
Block_NoMarker(cnt) ==
    IF cnt = 0 THEN "  "
    ELSE RightAlign(IntStr(cnt), 2)

(* the two-character block of a cell *)
Block(cnt) ==
    IF cnt = 0 THEN "  "
    ELSE IF cnt < 10 THEN RightAlign(IntStr(cnt), 2)
    ELSE "++"

(* the lines after the grid, shared word for word by the two terminal renderers *)
SummaryLines(h, rs, dates) ==
    LET total_commits == SumSeq(Values(h))
        sorted == SortedByCountDesc(rs)
        max_key == MaxItem(h)
    IN  << <<"total", IntStr(total_commits)>> >>
        \o (IF Len(rs) > 1
            THEN << <<"repos">> >>
                 \o [i \in DOMAIN sorted |->
                        <<"repo", sorted[i][1], IntStr(sorted[i][2]),
                          PercentStr(sorted[i][2], total_commits)>>]
            ELSE <<>>)
        \o << <<"range", StrfDate(dates[1]), StrfDate(dates[Len(dates)])>>,
              <<"days", IntStr(Len(dates))>> >>
        \o (IF h # <<>>
            THEN << <<"busiest", StrfDate(max_key[1][1]), IntStr(max_key[1][2]),
                     IntStr(max_key[2])>> >>
            ELSE <<>>)

print_heatmap_table(h, rs) ==
    IF h = <<>> THEN <<NoDataNotice>>
    ELSE LET dates == DatesOf(h)
             mx == MaxValue(h)
         IN  << <<"header", Spaces(6),
                  [i \in DOMAIN dates |-> RightAlign(StrfMonthDay(dates[i]), 6)]>> >>
             \o [r \in 1..24 |->
                    <<"row", RightAlign(IntStr(HourSeq[r]), 2),
                      [i \in DOMAIN dates |->
                         LET cnt == Get(h, <<dates[i], HourSeq[r]>>, 0)
                         IN  <<get_color(cnt, mx), Block(cnt)>>]>>]
             \o SummaryLines(h, rs, dates)

print_heatmap_table_plain(h, rs) ==
    IF h = <<>> THEN <<NoDataNotice>>
    ELSE LET dates == DatesOf(h)
         IN  << <<"header", Spaces(6),
                  [i \in DOMAIN dates |-> RightAlign(StrfMonthDay(dates[i]), 8)]>> >>
             \o [r \in 1..24 |->
                    <<"row", RightAlign(IntStr(HourSeq[r]), 2),
                      [i \in DOMAIN dates |->
                         RightAlign(IntStr(Get(h, <<dates[i], HourSeq[r]>>, 0)), 8)]>>]
             \o SummaryLines(h, rs, dates)

(* the heatmap after the lookups of the grid loops of the two terminal      *)
(* renderers: for hour in range(24): for date in dates; n counts the cells  *)
RECURSIVE TableLookups(_, _, _)
TableLookups(h, dates, n) ==
    IF n = 24 * Len(dates) THEN h
    ELSE LET hour == n \div Len(dates)
             date == dates[(n % Len(dates)) + 1]
         IN  TableLookups(AfterGet(h, <<date, hour>>), dates, n + 1)

(* heatmap and repo_heatmap after the lookups of the body loop of           *)
(* generate_html_heatmap                                                    *)
RECURSIVE HtmlLookups(_, _, _, _)
HtmlLookups(h, rh, dates, n) ==
    IF n = 24 * Len(dates) THEN [heatmap |-> h, repo_heatmap |-> rh]
    ELSE LET hour == n \div Len(dates)
             date == dates[(n % Len(dates)) + 1]
             key == <<date, hour>>
             rh1 == IF rh # <<>> THEN AfterContains(rh, key) ELSE rh
             rh2 == IF rh # <<>> /\ Has(rh, key) THEN AfterIndex(rh1, key, <<>>) ELSE rh1
         IN  HtmlLookups(AfterGet(h, key), rh2, dates, n + 1)

(***************************************************************************)
(* generate_html_heatmap.  The document is the sequence of its generated   *)
(* elements; the static markup, style sheet and script are the same in     *)
(* every document and are left out.                                        *)
(***************************************************************************)
(* Python's None and JavaScript's null, apart from every year, level, colour and cell *)
None == -1
NoFile == "NoFile"

(* the loop over enumerate(dates) that builds year_colspans; i counts from 0 *)
RECURSIVE YearLoop(_, _, _)
YearLoop(dates, i, st) ==
    IF i = Len(dates) THEN st
    ELSE LET year == dates[i + 1][1]
         IN  IF year # st.current_year
             THEN YearLoop(dates, i + 1,
                    [current_year   |-> year,
                     year_start_idx |-> i,
                     year_colspans  |->
                        IF st.current_year # None
                        THEN Append(st.year_colspans,
                                    <<st.current_year, i - st.year_start_idx>>)
                        ELSE st.year_colspans])
             ELSE YearLoop(dates, i + 1, st)

(* year_colspans without the append after the loop *)
year_colspans_NoLast(dates) ==
    YearLoop(dates, 0,
        [current_year |-> None, year_start_idx |-> 0, year_colspans |-> <<>>]).year_colspans

year_colspans(dates) ==
    LET st == YearLoop(dates, 0,
                  [current_year |-> None, year_start_idx |-> 0, year_colspans |-> <<>>])
    IN  IF st.current_year # None
        THEN Append(st.year_colspans, <<st.current_year, Len(dates) - st.year_start_idx>>)
        ELSE st.year_colspans

YearRow(dates) ==
    LET spans == year_colspans(dates)
    IN  [i \in DOMAIN spans |-> <<"th", "year-header", IntStr(spans[i][2]), IntStr(spans[i][1])>>]

(* the date row: class="date-header" where the year differs from the previous date's *)
DateRow(dates) ==
    [i \in DOMAIN dates |->
        LET prev_year == IF i = 1 THEN None ELSE dates[i - 1][1]
            is_year_boundary == prev_year # None /\ dates[i][1] # prev_year
        IN  <<"th", IF is_year_boundary THEN "date-header" ELSE "", StrfMonthDay(dates[i])>>]

Tooltip(h, rh, date, hour) ==
    LET cnt == Get(h, <<date, hour>>, 0)
        head == <<StrfDate(date) \o " " \o IntStr(hour), IntStr(cnt)>>
    IN  IF rh # <<>> /\ Has(rh, <<date, hour>>)
        THEN LET repo_details == SortedByName(Get(rh, <<date, hour>>, <<>>))
             IN  Append(head, [i \in DOMAIN repo_details |->
                                 <<repo_details[i][1], IntStr(repo_details[i][2])>>])
        ELSE head

BodyRows(h, rh, dates, mx) ==
    [r \in 1..24 |->
        <<"tr", RightAlign(IntStr(HourSeq[r]), 2),
          [i \in DOMAIN dates |->
             <<"cell", "level-" \o IntStr(html_level(Get(h, <<dates[i], HourSeq[r]>>, 0), mx)),
               Tooltip(h, rh, dates[i], HourSeq[r])>>]>>]

HtmlStats(h, rs, dates) ==
    LET total_commits == SumSeq(Values(h))
        sorted == SortedByCountDesc(rs)
        max_key == MaxItem(h)
    IN  << <<"total", IntStr(total_commits)>> >>
        \o (IF Len(rs) > 1
            THEN << <<"repos">> >>
                 \o [i \in DOMAIN sorted |->
                        <<"repo", sorted[i][1], IntStr(sorted[i][2]),
                          PercentStr(sorted[i][2], total_commits)>>]
            ELSE <<>>)
        \o << <<"range", StrfDate(dates[1]), StrfDate(dates[Len(dates)])>>,
              <<"days", IntStr(Len(dates))>> >>
        \o (IF h # <<>>
            THEN << <<"busiest", StrfDate(max_key[1][1]), IntStr(max_key[1][2]),
                     IntStr(max_key[2])>> >>
            ELSE <<>>)

(* generate_html_heatmap with the return of the no-data branch missing *)
generate_html_heatmap_NoReturn(h, rs, rh) ==
    LET dates == DatesOf(h)
        mx == IF h # <<>> THEN MaxValue(h) ELSE 1
        doc == << <<"year-row", YearRow(dates)>>, <<"date-row", DateRow(dates)>> >>
               \o BodyRows(h, rh, dates, mx)
    IN  IF h = <<>>
        THEN [stdout |-> <<NoDataNotice, <<"html-written">> >>, file |-> doc]
        ELSE [stdout |-> << <<"html-written">> >>, file |-> doc \o HtmlStats(h, rs, dates)]

(* what the call prints and the text it writes to output_path, if any *)
generate_html_heatmap(h, rs, rh) ==
    IF h = <<>> THEN [stdout |-> <<NoDataNotice>>, file |-> NoFile]
    ELSE LET dates == DatesOf(h)
             mx == MaxValue(h)
         IN  [stdout |-> << <<"html-written">> >>,
              file   |-> << <<"year-row", YearRow(dates)>>, <<"date-row", DateRow(dates)>> >>
                         \o BodyRows(h, rh, dates, mx)
                         \o HtmlStats(h, rs, dates)]

(***************************************************************************)
(* Spec: generate_heatmap(commits), one loop iteration per step, then one  *)
(* renderer on the maps it returned.                                       *)
(***************************************************************************)
NoBlock == ""
NoLayout == [scrolls |-> None, resizes |-> None]
ScaleIdle == count = 0 /\ max_count = 1 /\ color = None /\ level = None /\ block = NoBlock
HdrIdle == hdr_dates = <<>> /\ year_row = <<>> /\ date_row = <<>>
RafIdle ==
    /\ rafId = None /\ ticking = FALSE /\ callbacks = <<>>
    /\ nextId = 1 /\ layout = NoLayout /\ labels = NoLayout
LblIdle ==
    /\ headerLeft = 0 /\ headerWidth = 0 /\ viewportWidth = 0 /\ textWidth = 0
    /\ visible = FALSE /\ offsetX2 = None /\ recomputed = FALSE
PageIdle == HdrIdle /\ RafIdle /\ LblIdle
Null == "null"
NoEvent == [type |-> "none", target |-> Null, document |-> FALSE]
TipIdle == active = {} /\ activeCell = Null /\ hovered = Null /\ event = NoEvent
AggIdle ==
    /\ commits = <<>> /\ pos = 0 /\ heatmap = <<>> /\ repo_heatmap = <<>> /\ repo_stats = <<>>
    /\ pc = "idle" /\ stdout = <<>> /\ file = NoFile

Init ==
    /\ commits \in Batches
    /\ pos = 0
    /\ heatmap = <<>>
    /\ repo_heatmap = <<>>
    /\ repo_stats = <<>>
    /\ pc = "generate_heatmap"
    /\ stdout = <<>>
    /\ file = NoFile
    /\ ScaleIdle
    /\ TipIdle
    /\ PageIdle

(* for date, hour, repo_name in commits: one iteration *)
HeatmapStep ==
    /\ pc = "generate_heatmap"
    /\ pos < Len(commits)
    /\ LET agg == Accumulate(Aggregate, commits[pos + 1])
       IN  /\ heatmap' = agg.heatmap
           /\ repo_heatmap' = agg.repo_heatmap
           /\ repo_stats' = agg.repo_stats
    /\ pos' = pos + 1
    /\ UNCHANGED <<commits, pc, stdout, file, scaleVars, tipVars, pageVars>>

(* return heatmap, repo_heatmap, repo_stats *)
HeatmapReturn ==
    /\ pc = "generate_heatmap"
    /\ pos = Len(commits)
    /\ pc' = "render"
    /\ UNCHANGED <<commits, pos, heatmap, repo_heatmap, repo_stats, stdout, file,
                   scaleVars, tipVars, pageVars>>

PrintHeatmapTable ==
    /\ pc = "render"
    /\ stdout' = print_heatmap_table(heatmap, repo_stats)
    /\ heatmap' = TableLookups(heatmap, DatesOf(heatmap), 0)
    /\ pc' = "print_heatmap_table"
    /\ UNCHANGED <<commits, pos, repo_heatmap, repo_stats, file, scaleVars, tipVars, pageVars>>

PrintHeatmapTablePlain ==
    /\ pc = "render"
    /\ stdout' = print_heatmap_table_plain(heatmap, repo_stats)
    /\ heatmap' = TableLookups(heatmap, DatesOf(heatmap), 0)
    /\ pc' = "print_heatmap_table_plain"
    /\ UNCHANGED <<commits, pos, repo_heatmap, repo_stats, file, scaleVars, tipVars, pageVars>>

GenerateHtmlHeatmap ==
    /\ pc = "render"
    /\ LET res == generate_html_heatmap(heatmap, repo_stats, repo_heatmap)
       IN  /\ stdout' = res.stdout
           /\ file' = res.file
    /\ LET after == HtmlLookups(heatmap, repo_heatmap, DatesOf(heatmap), 0)
       IN  /\ heatmap' = after.heatmap
           /\ repo_heatmap' = after.repo_heatmap
    /\ pc' = "generate_html_heatmap"
    /\ UNCHANGED <<commits, pos, repo_stats, scaleVars, tipVars, pageVars>>

Next ==
    \/ HeatmapStep
    \/ HeatmapReturn
    \/ PrintHeatmapTable
    \/ PrintHeatmapTablePlain
    \/ GenerateHtmlHeatmap

Spec == Init /\ [][Next]_vars

(***************************************************************************)
(* SpecScale: the two threshold computations applied to one count under    *)
(* one max_count, as print_heatmap_table and generate_html_heatmap apply   *)
(* them to every cell.  max_count is the largest cell total and count is a *)
(* cell total or 0, so 0 <= count <= max_count and max_count >= 1.         *)
(***************************************************************************)
InitScale ==
    /\ max_count \in 1..MaxCount
    /\ count \in 0..max_count
    /\ color = None
    /\ level = None
    /\ block = NoBlock
    /\ AggIdle
    /\ TipIdle
    /\ PageIdle

(* color = get_color(count) *)
GetColor ==
    /\ color = None
    /\ color' = get_color(count, max_count)
    /\ UNCHANGED <<count, max_count, level, block, aggVars, tipVars, pageVars>>

(* the if / elif chain that sets level *)
HtmlLevel ==
    /\ level = None
    /\ level' = html_level(count, max_count)
    /\ UNCHANGED <<count, max_count, color, block, aggVars, tipVars, pageVars>>

(* the if / elif chain that sets block *)
CellBlock ==
    /\ block = NoBlock
    /\ block' = Block(count)
    /\ UNCHANGED <<count, max_count, color, level, aggVars, tipVars, pageVars>>

NextScale == GetColor \/ HtmlLevel \/ CellBlock

SpecScale == InitScale /\ [][NextScale]_vars

(***************************************************************************)
(* SpecTooltip: the tooltip script.  active is the set of cells carrying   *)
(* the class active, activeCell the script's variable, hovered the cell    *)
(* the pointer is over (the cell matching :hover), event the last event    *)
(* dispatched, with whether it reached the listener on document.           *)
(***************************************************************************)
CellName(i) == "cell" \o IntStr(i)
Cells == {CellName(i) : i \in 1..NumCells}
Outside == "outside"

Tip == [active |-> active, activeCell |-> activeCell]

hideTooltip(st) ==
    IF st.activeCell # Null
    THEN [active |-> st.active \ {st.activeCell}, activeCell |-> Null]
    ELSE st

(* mouseenter handler without the line that adds the class *)
mouseenter_NoClass(st, this) == [active |-> hideTooltip(st).active, activeCell |-> this]

mouseenter(st, this) ==
    LET h == hideTooltip(st)
    IN  [active |-> h.active \cup {this}, activeCell |-> this]

(* mouseleave handler that removes the class and keeps activeCell *)
mouseleave_NoReset(st, this) ==
    [active |-> st.active \ {this}, activeCell |-> st.activeCell]

mouseleave(st, this) ==
    [active     |-> st.active \ {this},
     activeCell |-> IF st.activeCell = this THEN Null ELSE st.activeCell]

cell_click(st, this) ==
    IF st.activeCell = this
    THEN hideTooltip(st)
    ELSE LET h == hideTooltip(st)
         IN  [active |-> h.active \cup {this}, activeCell |-> this]

(* e.stopPropagation() in the cell's click listener *)
propagation_Continues == FALSE

stopPropagation == TRUE

(* the click listener on document; closest('.cell') is null outside the cells *)
document_click(st, target) ==
    IF target \notin Cells THEN hideTooltip(st) ELSE st

InitTooltip ==
    /\ active = {}
    /\ activeCell = Null
    /\ hovered = Null
    /\ event = NoEvent
    /\ AggIdle
    /\ ScaleIdle
    /\ PageIdle

MouseEnter(c) ==
    /\ LET st == mouseenter(Tip, c)
       IN  active' = st.active /\ activeCell' = st.activeCell
    /\ hovered' = c
    /\ event' = [type |-> "mouseenter", target |-> c, document |-> FALSE]
    /\ UNCHANGED <<aggVars, scaleVars, pageVars>>

MouseLeave(c) ==
    /\ LET st == mouseleave(Tip, c)
       IN  active' = st.active /\ activeCell' = st.activeCell
    /\ hovered' = IF hovered = c THEN Null ELSE hovered
    /\ event' = [type |-> "mouseleave", target |-> c, document |-> FALSE]
    /\ UNCHANGED <<aggVars, scaleVars, pageVars>>

(* a click inside cell target, or outside every cell: the cell's listener, *)
(* then the listener on document unless propagation was stopped            *)
Click(target) ==
    /\ LET on_cell == target \in Cells
           st1 == IF on_cell THEN cell_click(Tip, target) ELSE Tip
           reaches == ~(on_cell /\ stopPropagation)
           st2 == IF reaches THEN document_click(st1, target) ELSE st1
       IN  /\ active' = st2.active
           /\ activeCell' = st2.activeCell
           /\ event' = [type |-> "click", target |-> target, document |-> reaches]
    /\ UNCHANGED <<hovered, aggVars, scaleVars, pageVars>>

NextTooltip ==
    \/ \E c \in Cells : MouseEnter(c)
    \/ \E c \in Cells : MouseLeave(c)
    \/ \E t \in Cells \cup {Outside} : Click(t)

SpecTooltip == InitTooltip /\ [][NextTooltip]_vars

(***************************************************************************)
(* SpecHeader: the two header rows of the table, built from dates, the     *)
(* sorted distinct dates of a non-empty heatmap.                           *)
(***************************************************************************)
HeaderDatePool ==
    << <<2022, 12, 30>>, <<2022, 12, 31>>, <<2023, 6, 1>>, <<2024, 1, 1>>,
       <<2024, 1, 2>>, <<2024, 3, 5>>, <<2025, 1, 1>>, <<2025, 2, 2>> >>
HeaderDates == {HeaderDatePool[i] : i \in 1..NumHeaderDates}

InitHeader ==
    /\ hdr_dates \in {SortDates(S) : S \in (SUBSET HeaderDates) \ {{}}}
    /\ year_row = <<>>
    /\ date_row = <<>>
    /\ AggIdle /\ ScaleIdle /\ TipIdle /\ RafIdle /\ LblIdle

(* the year row: one <<year, colspan>> per th.year-header *)
BuildYearRow ==
    /\ year_row = <<>>
    /\ year_row' = year_colspans(hdr_dates)
    /\ UNCHANGED <<hdr_dates, date_row, aggVars, scaleVars, tipVars, rafVars, lblVars>>

(* the date row: one <<"th", class, MM-DD>> per date *)
BuildDateRow ==
    /\ date_row = <<>>
    /\ date_row' = DateRow(hdr_dates)
    /\ UNCHANGED <<hdr_dates, year_row, aggVars, scaleVars, tipVars, rafVars, lblVars>>

NextHeader == BuildYearRow \/ BuildDateRow

SpecHeader == InitHeader /\ [][NextHeader]_vars

(***************************************************************************)
(* SpecRaf: when the year labels are recomputed.  callbacks is the list of *)
(* animation frame callbacks requested and not yet run or cancelled, each  *)
(* [id, kind]: "update" is the callback of updateYearPositions, "untick"   *)
(* the one of throttledUpdate.  layout counts the scrolls of the heatmap   *)
(* and the resizes of the window so far; labels is the layout the last     *)
(* recomputation read.  The browser runs the callbacks of a frame one      *)
(* after the other, in request order, with no event between them.          *)
(***************************************************************************)
Raf == [rafId |-> rafId, ticking |-> ticking, callbacks |-> callbacks, nextId |-> nextId]

(* requestAnimationFrame(callback): returns the handle nextId *)
requestAnimationFrame(st, kind) ==
    [st EXCEPT !.callbacks = Append(@, [id |-> st.nextId, kind |-> kind]),
               !.nextId = @ + 1]

(* cancelAnimationFrame(id) *)
cancelAnimationFrame(st, id) ==
    [st EXCEPT !.callbacks = SelectSeq(@, LAMBDA cb : cb.id # id)]

(* all of updateYearPositions but the callback it requests *)
updateYearPositions(st) ==
    LET st1 == IF st.rafId # None THEN cancelAnimationFrame(st, st.rafId) ELSE st
    IN  [requestAnimationFrame(st1, "update") EXCEPT !.rafId = st1.nextId]

(* throttledUpdate without the frame callback that clears ticking *)
throttledUpdate_NoUntick(st) ==
    IF ~st.ticking
    THEN updateYearPositions([st EXCEPT !.ticking = TRUE])
    ELSE st

throttledUpdate(st) ==
    IF ~st.ticking
    THEN requestAnimationFrame(updateYearPositions([st EXCEPT !.ticking = TRUE]), "untick")
    ELSE st

(* one callback of a frame, run at layout now; r is [st, labels] *)
RunCallback(r, cb, now) ==
    IF cb.kind = "update"
    THEN [st |-> [r.st EXCEPT !.rafId = None], labels |-> now]
    ELSE [st |-> [r.st EXCEPT !.ticking = FALSE], labels |-> r.labels]

RECURSIVE RunCallbacks(_, _, _)
RunCallbacks(r, cbs, now) ==
    IF cbs = <<>> THEN r ELSE RunCallbacks(RunCallback(r, Head(cbs), now), Tail(cbs), now)

(* the script has run: let rafId = null, ticking = false, then the          *)
(* updateYearPositions() call that ends the if (heatmap) block              *)
InitRaf ==
    /\ LET st == updateYearPositions(
                    [rafId |-> None, ticking |-> FALSE, callbacks |-> <<>>, nextId |-> 1])
       IN  /\ rafId = st.rafId
           /\ ticking = st.ticking
           /\ callbacks = st.callbacks
           /\ nextId = st.nextId
    /\ layout = [scrolls |-> 0, resizes |-> 0]
    /\ labels = NoLayout
    /\ AggIdle /\ ScaleIdle /\ TipIdle /\ HdrIdle /\ LblIdle

(* the listener of both events: throttledUpdate *)
LayoutEvent ==
    /\ LET st == throttledUpdate(Raf)
       IN  /\ rafId' = st.rafId
           /\ ticking' = st.ticking
           /\ callbacks' = st.callbacks
           /\ nextId' = st.nextId
    /\ UNCHANGED <<labels, aggVars, scaleVars, tipVars, hdrVars, lblVars>>

(* heatmap.addEventListener('scroll', throttledUpdate): the heatmap scrolled *)
Scroll ==
    /\ layout.scrolls < MaxLayoutChanges
    /\ layout' = [layout EXCEPT !.scrolls = @ + 1]
    /\ LayoutEvent

(* window.addEventListener('resize', throttledUpdate): the window was resized *)
Resize ==
    /\ layout.resizes < MaxLayoutChanges
    /\ layout' = [layout EXCEPT !.resizes = @ + 1]
    /\ LayoutEvent

(* an animation frame: every requested callback runs and reads the layout *)
(* as it is now                                                           *)
Frame ==
    /\ callbacks # <<>>
    /\ LET r == RunCallbacks([st |-> [Raf EXCEPT !.callbacks = <<>>], labels |-> labels],
                             callbacks, layout)
       IN  /\ rafId' = r.st.rafId
           /\ ticking' = r.st.ticking
           /\ callbacks' = r.st.callbacks
           /\ nextId' = r.st.nextId
           /\ labels' = r.labels
    /\ UNCHANGED <<layout, aggVars, scaleVars, tipVars, hdrVars, lblVars>>

NextRaf == Scroll \/ Resize \/ Frame

(* animation frames keep firing *)
SpecRaf == InitRaf /\ [][NextRaf]_vars /\ WF_vars(Frame)

(***************************************************************************)
(* SpecLabel: the body of yearHeaders.forEach for one header that has a    *)
(* .year-text.  Lengths are whole pixels; headerLeft is already relative   *)
(* to the left edge of the heatmap, whose width is viewportWidth.  The     *)
(* header spans at least one column and the text is a year, so both widths *)
(* are positive.  offsetX2 is twice offsetX, which keeps the halves of the *)
(* code integral; visible is the class of the text.                        *)
(***************************************************************************)
Max(a, b) == IF a >= b THEN a ELSE b
Min(a, b) == IF a <= b THEN a ELSE b

(* the forEach body without the visibleWidth < textWidth test *)
updateYearLabel_NoFit(lbl, hLeft, hWidth, vWidth, tWidth) ==
    LET hRight == hLeft + hWidth
        visibleLeft == Max(0, hLeft)
        visibleRight == Min(vWidth, hRight)
        visibleWidth == visibleRight - visibleLeft
    IN  IF hLeft < 0 /\ hRight < 0 THEN [lbl EXCEPT !.visible = FALSE]
        ELSE IF hLeft > vWidth THEN [lbl EXCEPT !.visible = FALSE]
        ELSE IF tWidth > hWidth THEN [lbl EXCEPT !.visible = FALSE]
        ELSE [visible  |-> TRUE,
              offsetX2 |-> (2 * visibleLeft + visibleWidth) - (2 * hLeft + hWidth)]

(* lbl is [visible, offsetX2], the class and the transform of the text *)
updateYearLabel(lbl, hLeft, hWidth, vWidth, tWidth) ==
    LET hRight == hLeft + hWidth
        visibleLeft == Max(0, hLeft)
        visibleRight == Min(vWidth, hRight)
        visibleWidth == visibleRight - visibleLeft
    IN  IF hLeft < 0 /\ hRight < 0 THEN [lbl EXCEPT !.visible = FALSE]
        ELSE IF hLeft > vWidth THEN [lbl EXCEPT !.visible = FALSE]
        ELSE IF tWidth > hWidth THEN [lbl EXCEPT !.visible = FALSE]
        ELSE IF visibleWidth < tWidth THEN [lbl EXCEPT !.visible = FALSE]
        ELSE [visible  |-> TRUE,
              offsetX2 |-> (2 * visibleLeft + visibleWidth) - (2 * hLeft + hWidth)]

InitLabel ==
    /\ viewportWidth \in 1..MaxWidth
    /\ headerWidth \in 1..MaxWidth
    /\ headerLeft \in (0 - MaxWidth - 1)..(MaxWidth + 1)
    /\ textWidth \in 1..MaxWidth
    /\ visible \in BOOLEAN
    /\ offsetX2 = IF visible THEN 0 ELSE None
    /\ recomputed = FALSE
    /\ AggIdle /\ ScaleIdle /\ TipIdle /\ HdrIdle /\ RafIdle

RecomputeLabel ==
    /\ ~recomputed
    /\ LET lbl == updateYearLabel([visible |-> visible, offsetX2 |-> offsetX2],
                                  headerLeft, headerWidth, viewportWidth, textWidth)
       IN  /\ visible' = lbl.visible
           /\ offsetX2' = lbl.offsetX2
    /\ recomputed' = TRUE
    /\ UNCHANGED <<headerLeft, headerWidth, viewportWidth, textWidth,
                   aggVars, scaleVars, tipVars, hdrVars, rafVars>>

NextLabel == RecomputeLabel

SpecLabel == InitLabel /\ [][NextLabel]_vars

(***************************************************************************)
(* Properties of the aggregation and of the renderers (under Spec).        *)
(***************************************************************************)
Rendered == pc \in {"print_heatmap_table", "print_heatmap_table_plain", "generate_html_heatmap"}

(* a dict as a mapping, its insertion order forgotten *)
MapOf(d) == [k \in Keys(d) |-> Get(d, k, 0)]
NestedMapOf(d) == [k \in Keys(d) |-> MapOf(Get(d, k, <<>>))]
MapsOf(agg) ==
    [heatmap      |-> MapOf(agg.heatmap),
     repo_heatmap |-> NestedMapOf(agg.repo_heatmap),
     repo_stats   |-> MapOf(agg.repo_stats)]

RECURSIVE SumOver(_, _)
SumOver(f, S) ==
    IF S = {} THEN 0
    ELSE LET k == CHOOSE x \in S : TRUE IN f[k] + SumOver(f, S \ {k})
SumMap(f) == SumOver(f, DOMAIN f)

PermsOf(s) == {[i \in DOMAIN s |-> s[f[i]]] : f \in Permutations(DOMAIN s)}

(* C1: after any prefix of k records the per-cell totals and the per-source *)
(* totals both sum to k, and each cell's total is the sum of its per-source *)
(* counts.                                                                  *)
Conservation ==
    LET m == MapsOf(Aggregate)
    IN  /\ SumMap(m.heatmap) = pos
        /\ SumMap(m.repo_stats) = pos
        /\ DOMAIN m.repo_heatmap = DOMAIN m.heatmap
        /\ \A key \in DOMAIN m.heatmap : m.heatmap[key] = SumMap(m.repo_heatmap[key])

ConservationWitness ==
    /\ pc = "render"
    /\ pos = MaxLen
    /\ Len(heatmap) >= 2
    /\ \E i \in DOMAIN repo_heatmap : Len(repo_heatmap[i][2]) >= 2

(* C2: when generate_heatmap has returned, every permutation of the batch    *)
(* aggregates to the same three maps: same key sets, same values.           *)
Commutativity ==
    pc = "render" =>
        \A p \in PermsOf(commits) : MapsOf(generate_heatmap(p)) = MapsOf(Aggregate)

CommutativityWitness ==
    /\ pc = "render"
    /\ pos = MaxLen
    /\ \E i, j \in DOMAIN commits :
          /\ commits[i][1] = commits[j][1] /\ commits[i][2] = commits[j][2]
          /\ commits[i][3] # commits[j][3]
    /\ \E p \in PermsOf(commits) : generate_heatmap(p).heatmap # heatmap

(* field-by-field sum of two aggregates, an absent key counting 0 *)
AddMaps(f, g) ==
    [k \in DOMAIN f \cup DOMAIN g |->
        (IF k \in DOMAIN f THEN f[k] ELSE 0) + (IF k \in DOMAIN g THEN g[k] ELSE 0)]
AddNestedMaps(f, g) ==
    [k \in DOMAIN f \cup DOMAIN g |->
        AddMaps(IF k \in DOMAIN f THEN f[k] ELSE <<>>, IF k \in DOMAIN g THEN g[k] ELSE <<>>)]
MergeAggregates(a, b) ==
    [heatmap      |-> AddMaps(a.heatmap, b.heatmap),
     repo_heatmap |-> AddNestedMaps(a.repo_heatmap, b.repo_heatmap),
     repo_stats   |-> AddMaps(a.repo_stats, b.repo_stats)]

(* the records of s at the positions in I, in their order in s *)
RECURSIVE Pick(_, _, _)
Pick(s, I, i) ==
    IF i > Len(s) THEN <<>>
    ELSE (IF i \in I THEN <<s[i]>> ELSE <<>>) \o Pick(s, I, i + 1)

(* C3: when generate_heatmap has returned, for every split of the batch into *)
(* two sub-batches the one-pass aggregate equals the field-by-field sum of   *)
(* the aggregates of the two sub-batches.                                   *)
MergeAssociativity ==
    pc = "render" =>
        \A I \in SUBSET (1..Len(commits)) :
            MergeAggregates(MapsOf(generate_heatmap(Pick(commits, I, 1))),
                            MapsOf(generate_heatmap(Pick(commits, (1..Len(commits)) \ I, 1))))
                = MapsOf(Aggregate)

MergeAssociativityWitness ==
    /\ pc = "render"
    /\ pos = MaxLen
    /\ \E i \in DOMAIN heatmap : heatmap[i][2] >= 2
    /\ \E i \in DOMAIN repo_heatmap : Len(repo_heatmap[i][2]) >= 2

(* C6: no records give three empty maps, and a renderer given an empty      *)
(* aggregate prints the no-data notice and nothing else, and writes no file. *)
NoDataPath ==
    /\ (commits = <<>> => heatmap = <<>> /\ repo_heatmap = <<>> /\ repo_stats = <<>>)
    /\ (Rendered /\ heatmap = <<>> => stdout = <<NoDataNotice>> /\ file = NoFile)

NoDataPathWitness ==
    /\ pc = "generate_html_heatmap"
    /\ commits = <<>>
    /\ heatmap = <<>>
    /\ stdout = <<NoDataNotice>>

(* what the renderer that ran prints and writes, given an aggregate *)
OutputOf(agg) ==
    IF pc = "print_heatmap_table"
    THEN [stdout |-> print_heatmap_table(agg.heatmap, agg.repo_stats), file |-> NoFile]
    ELSE IF pc = "print_heatmap_table_plain"
    THEN [stdout |-> print_heatmap_table_plain(agg.heatmap, agg.repo_stats), file |-> NoFile]
    ELSE generate_html_heatmap(agg.heatmap, agg.repo_stats, agg.repo_heatmap)

(* C7: whatever order the records of the batch arrive in, the renderer's    *)
(* output is the same, the busiest cell and the order of the per-source     *)
(* lines included.                                                          *)
OutputOrderIndependent ==
    Rendered =>
        \A p \in PermsOf(commits) :
            OutputOf(generate_heatmap(p)) = [stdout |-> stdout, file |-> file]

(* the records themselves, counted without the aggregate *)
RecordDates == {commits[i][1] : i \in DOMAIN commits}
RecordCells == {<<commits[i][1], commits[i][2]>> : i \in DOMAIN commits}
RecordSources == {commits[i][3] : i \in DOMAIN commits}
CellTotal(cell) ==
    Cardinality({i \in DOMAIN commits : <<commits[i][1], commits[i][2]>> = cell})
SourceTotal(repo) == Cardinality({i \in DOMAIN commits : commits[i][3] = repo})
LargestCellTotal ==
    CHOOSE n \in {CellTotal(c) : c \in RecordCells} : \A c \in RecordCells : CellTotal(c) <= n
EarliestDate == CHOOSE d \in RecordDates : \A e \in RecordDates : DateLeq(d, e)
LatestDate == CHOOSE d \in RecordDates : \A e \in RecordDates : DateLeq(e, d)

(* the lines of the renderer that ran, and those of them of one kind *)
SummaryOutput == IF pc = "generate_html_heatmap" THEN file ELSE stdout
LinesOf(out, kind) == SelectSeq(out, LAMBDA l : l[1] = kind)

(* C15: for a non-empty batch the renderer that ran reports the number of   *)
(* records as total, the number of distinct dates as day count, the         *)
(* earliest and latest date as range, and as busiest cell a cell of the     *)
(* batch whose total is the largest per-cell total, which is also the       *)
(* max_count of the scale; the per-source lines appear exactly when more    *)
(* than one source contributed, one per source, counts non-increasing.      *)
SummaryMatchesRecords ==
    Rendered /\ commits # <<>> =>
        LET out == SummaryOutput
            repos == LinesOf(out, "repo")
            busiest == LinesOf(out, "busiest")
        IN  /\ LinesOf(out, "total") = << <<"total", IntStr(Len(commits))>> >>
            /\ LinesOf(out, "days") = << <<"days", IntStr(Cardinality(RecordDates))>> >>
            /\ LinesOf(out, "range")
                  = << <<"range", StrfDate(EarliestDate), StrfDate(LatestDate)>> >>
            /\ MaxValue(heatmap) = LargestCellTotal
            /\ Len(busiest) = 1
            /\ \E cell \in RecordCells :
                  /\ Has(heatmap, cell)
                  /\ CellTotal(cell) = LargestCellTotal
                  /\ busiest[1] = <<"busiest", StrfDate(cell[1]), IntStr(cell[2]),
                                    IntStr(LargestCellTotal)>>
            /\ Len(LinesOf(out, "repos")) = (IF Cardinality(RecordSources) > 1 THEN 1 ELSE 0)
            /\ Len(repos) = (IF Cardinality(RecordSources) > 1
                             THEN Cardinality(RecordSources) ELSE 0)
            /\ \A i \in DOMAIN repos :
                  /\ repos[i][2] \in RecordSources
                  /\ repos[i][3] = IntStr(SourceTotal(repos[i][2]))
                  /\ repos[i][4] = PercentStr(SourceTotal(repos[i][2]), Len(commits))
            /\ \A i, j \in DOMAIN repos :
                  /\ (i # j => repos[i][2] # repos[j][2])
                  /\ (i < j => SourceTotal(repos[i][2]) >= SourceTotal(repos[j][2]))

(* two sources, two dates, and the busiest cell is not the first one met *)
SummaryMatchesRecordsWitness ==
    /\ pc = "print_heatmap_table"
    /\ Len(commits) = MaxLen
    /\ Cardinality(RecordSources) = 2
    /\ Cardinality(RecordDates) = 2
    /\ heatmap[1][2] < LargestCellTotal
    /\ LinesOf(stdout, "repos") # <<>>

(* C16: after any of the three renderers has run, the three maps are what   *)
(* generate_heatmap returned for the batch, same keys and same values, and  *)
(* every (date, hour) the renderer looked up that has no commit is a key of *)
(* neither cell-keyed map.                                                  *)
RenderingPreservesAggregate ==
    Rendered =>
        /\ Aggregate = generate_heatmap(commits)
        /\ \A date \in RecordDates, hour \in Hours :
              <<date, hour>> \notin RecordCells =>
                  /\ ~Has(heatmap, <<date, hour>>)
                  /\ ~Has(repo_heatmap, <<date, hour>>)

RenderingPreservesAggregateWitness ==
    /\ pc = "generate_html_heatmap"
    /\ file # NoFile
    /\ Len(heatmap) >= 2
    /\ Cardinality(RecordDates) = 2
    /\ Len(file) > 24
    /\ ~Has(heatmap, << <<2024, 1, 1>>, 0>>)

(***************************************************************************)
(* Properties of the thresholds (under SpecScale).                         *)
(***************************************************************************)
ColorLevel(code) ==
    IF code = 232 THEN 0
    ELSE IF code = 22 THEN 1
    ELSE IF code = 28 THEN 2
    ELSE IF code = 34 THEN 3
    ELSE IF code = 40 THEN 4
    ELSE None

(* the shared policy: 0 for no commits, else 1 plus the number of quartile  *)
(* bounds q/4 * max that the count exceeds                                  *)
PolicyLevel(cnt, mx) ==
    IF cnt = 0 THEN 0 ELSE 1 + Cardinality({q \in 1..3 : 4 * cnt > q * mx})

(* C4: the terminal colour and the HTML class of a count denote the same    *)
(* level, the level of the shared policy with inclusive upper bounds.       *)
RendererConsistency ==
    /\ (color # None => ColorLevel(color) = PolicyLevel(count, max_count))
    /\ (level # None => level = PolicyLevel(count, max_count))
    /\ (color # None /\ level # None => ColorLevel(color) = level)

RendererConsistencyWitness ==
    /\ color = 22
    /\ level = 1
    /\ 4 * count = max_count

(* C5: for a fixed max_count the level never decreases as the count grows,  *)
(* the level of 0 is 0 and the level of max_count is 4.                     *)
ThresholdMonotonicity ==
    /\ (level # None =>
          /\ \A c \in 0..count : html_level(c, max_count) <= level
          /\ (count = 0 => level = 0)
          /\ (count = max_count => level = 4))
    /\ (color # None =>
          /\ \A c \in 0..count : ColorLevel(get_color(c, max_count)) <= ColorLevel(color)
          /\ (count = 0 => color = 232)
          /\ (count = max_count => color = 40))

ThresholdMonotonicityWitness ==
    /\ max_count = 1
    /\ count = 1
    /\ level = 4
    /\ color = 40

(***************************************************************************)
(* Properties of the tooltip script (under SpecTooltip).                   *)
(***************************************************************************)
Visible == active \cup (IF hovered = Null THEN {} ELSE {hovered})

(* C8: at most one cell's tooltip is visible, a tooltip being visible when  *)
(* its cell has the class active or is hovered.                             *)
OneTooltipAtATime == Cardinality(Visible) <= 1

(* C9 as stated: after a cell's mouseenter handler and after a cell's click *)
(* handler, that cell has the class active and is activeCell.               *)
HandlerShowsTooltip ==
    event.type \in {"mouseenter", "click"} /\ event.target \in Cells =>
        event.target \in active /\ activeCell = event.target

(* C9 amended: a cell's mouseenter handler, and its click handler when the  *)
(* cell is not activeCell, leave the cell active and recorded as activeCell; *)
(* its click handler when the cell is activeCell removes the class and sets *)
(* activeCell to null.                                                      *)
ClickToggles ==
    [][\A c \in Cells :
        /\ (MouseEnter(c) => c \in active' /\ activeCell' = c)
        /\ (Click(c) /\ activeCell # c => c \in active' /\ activeCell' = c)
        /\ (Click(c) /\ activeCell = c => c \notin active' /\ activeCell' = Null)]_vars

ClickTogglesWitness ==
    /\ event.type = "click"
    /\ event.target \in Cells
    /\ hovered = event.target
    /\ activeCell = Null
    /\ active = {}

(* C10: after a click outside every cell no cell is active and activeCell   *)
(* is null, and a click inside a cell never reaches the listener on         *)
(* document.                                                                *)
OutsideClickDismisses ==
    event.type = "click" =>
        /\ (event.target = Outside => active = {} /\ activeCell = Null)
        /\ (event.target \in Cells => ~event.document)

OutsideClickDismissesWitness ==
    /\ event.type = "click"
    /\ event.target = Outside
    /\ event.document
    /\ hovered # Null
    /\ active = {}

(* C17: after any sequence of mouseenter, mouseleave and click events the   *)
(* cells carrying the class active are none when activeCell is null and     *)
(* exactly activeCell otherwise.                                            *)
TooltipStateConsistent ==
    active = (IF activeCell = Null THEN {} ELSE {activeCell})

(* a cell made active by a click while the pointer rests on another cell *)
TooltipStateConsistentWitness ==
    /\ event.type = "click"
    /\ activeCell = event.target
    /\ active = {activeCell}
    /\ hovered \in Cells \ {activeCell}

(***************************************************************************)
(* Properties of the header rows (under SpecHeader).                       *)
(***************************************************************************)
(* the first column of each maximal run of columns of one calendar year *)
SpanStarts ==
    {k \in DOMAIN hdr_dates : k = 1 \/ hdr_dates[k][1] # hdr_dates[k - 1][1]}

RECURSIVE ColspanSum(_, _)
ColspanSum(row, n) == IF n = 0 THEN 0 ELSE row[n][2] + ColspanSum(row, n - 1)

(* one year cell per maximal run, in date order, its colspan the run length *)
YearRowIsRuns ==
    year_row # <<>> =>
        /\ ColspanSum(year_row, Len(year_row)) = Len(hdr_dates)
        /\ Len(year_row) = Cardinality(SpanStarts)
        /\ \A i \in DOMAIN year_row :
              /\ year_row[i][2] >= 1
              /\ ColspanSum(year_row, i - 1) + 1 \in SpanStarts
              /\ \A k \in (ColspanSum(year_row, i - 1) + 1)..ColspanSum(year_row, i) :
                    hdr_dates[k][1] = year_row[i][1]
        /\ \A i \in 1..(Len(year_row) - 1) : year_row[i][1] # year_row[i + 1][1]

(* C11 as stated: the year row holds the maximal runs, and date-header is   *)
(* on the first date cell of each year-span and on no other date cell.      *)
YearSpanHeaderEverySpan ==
    /\ YearRowIsRuns
    /\ (date_row # <<>> =>
          \A k \in DOMAIN date_row : date_row[k][2] = "date-header" <=> k \in SpanStarts)

(* C11 amended: the year row holds the maximal runs, and date-header is on  *)
(* the first date cell of each year-span but the first, and on no other.    *)
YearSpanHeader ==
    /\ YearRowIsRuns
    /\ (date_row # <<>> =>
          \A k \in DOMAIN date_row :
              date_row[k][2] = "date-header" <=> k \in SpanStarts \ {1})

YearSpanHeaderWitness ==
    /\ Len(year_row) >= 3
    /\ \E i \in DOMAIN year_row : year_row[i][2] >= 2
    /\ \E k \in DOMAIN date_row : date_row[k][2] = "date-header"
    /\ date_row[1][2] = ""

(***************************************************************************)
(* Properties of the year-label scheduling (under SpecRaf).                *)
(***************************************************************************)
(* C12: every scroll or resize is eventually followed by a recomputation    *)
(* that reads the layout as it is at or after that event, and whenever no   *)
(* callback is pending the labels were computed from the current layout.    *)
LabelsFollowLayout ==
    /\ [](callbacks = <<>> => labels = layout)
    /\ \A a, b \in 0..MaxLayoutChanges :
          (layout = [scrolls |-> a, resizes |-> b])
              ~> (labels.scrolls >= a /\ labels.resizes >= b)

(* three events before one frame: the second and third found ticking set,   *)
(* and the first cancelled the recomputation requested when the page loaded *)
LabelsFollowLayoutWitness ==
    /\ layout.scrolls + layout.resizes = 3
    /\ layout.scrolls >= 1
    /\ layout.resizes >= 1
    /\ labels = layout
    /\ callbacks = <<>>
    /\ nextId = 4

(***************************************************************************)
(* Properties of the text of a terminal cell (under SpecScale).            *)
(***************************************************************************)
OneDigitBlocks == <<" 1", " 2", " 3", " 4", " 5", " 6", " 7", " 8", " 9">>

(* C14: the block of a cell is blank for a count of 0, the count right-     *)
(* aligned in two characters for 1..9 and ++ for 10 or more, always two     *)
(* characters wide; a count of 10 under a max_count of 10 gives ++ with     *)
(* the brightest colour and level 4.                                        *)
CellText ==
    block # NoBlock =>
        /\ (count = 0 => block = "  ")
        /\ (count \in 1..9 => block = OneDigitBlocks[count])
        /\ (count >= 10 => block = "++")
        /\ Len(block) = 2
        /\ (count = 10 /\ max_count = 10 /\ level # None => level = 4)
        /\ (count = 10 /\ max_count = 10 /\ color # None => color = 40)

CellTextWitness ==
    /\ count = 10
    /\ max_count = 10
    /\ block = "++"
    /\ level = 4
    /\ color = 40

(***************************************************************************)
(* Properties of the placement of a year label (under SpecLabel).          *)
(***************************************************************************)
(* the part of the header inside the viewport [0, viewportWidth] *)
IntersectionLeft == Max(0, headerLeft)
IntersectionRight == Min(viewportWidth, headerLeft + headerWidth)
IntersectionWidth == Max(0, IntersectionRight - IntersectionLeft)

(* twice the x of the label's centre: left: 50% of the header, then         *)
(* translate(calc(-50% + offsetX px))                                       *)
LabelCentre2 == 2 * headerLeft + headerWidth + offsetX2

(* C13: after one recomputation the label is visible exactly when the part  *)
(* of its header inside the viewport is at least as wide as the label, and  *)
(* a visible label is centred on the midpoint of that part.                 *)
LabelPlacement ==
    recomputed =>
        /\ (visible <=> IntersectionWidth >= textWidth)
        /\ (visible => LabelCentre2 = IntersectionLeft + IntersectionRight)

(* a header cut by the left edge of the viewport whose label still fits *)
LabelPlacementWitness ==
    /\ recomputed
    /\ visible
    /\ headerLeft < 0
    /\ offsetX2 > 0

====
